---- MODULE Spec2Model ----
(***************************************************************************)
(* Swarm Heaven (src/src/main.rs): the per-frame simulation as a state     *)
(* machine.  One frame of the Bevy app is                                   *)
(*   First -> StateTransition -> the Update systems -> ApplyDeferred ->    *)
(*   PostUpdate                                                             *)
(* and every system of the source is one action.  Commands (spawn and      *)
(* despawn) are deferred: the Update systems only queue them, and they are  *)
(* applied when the Update schedule ends.  The source orders only           *)
(* enemy_movement before boid_steering; a run follows one of the orders in  *)
(* Schedules for all its frames.                                            *)
(*                                                                          *)
(* Numbers.  Positions are integer vectors <<x, y>> (all entities share    *)
(* z = 10).  Frame time is in milliseconds, angles are in milliradians,    *)
(* unit vectors are in thousandths, the repeating timers whose duration is  *)
(* converted from an f32 are in nanoseconds.  A distance comparison        *)
(* d < r is made on the squares, which is exact on integers.               *)
(***************************************************************************)
EXTENDS Integers, Sequences, FiniteSets, TLC

\* ---------------------------------------------------------------- constants
PLAYER_SPEED == 500
PLAYER_SIZE == 30
ENEMY_SIZE == 20
ENEMY_SPEED == 200
\* Timer::from_seconds(0.1f32): Duration::from_secs_f32(0.1) is 100000001 ns
ENEMY_SPAWN_INTERVAL == 100000001
ORBITING_BLADE_RADIUS == 100
\* rad/s, which is mrad per ms
ORBITING_BLADE_ROTATION_SPEED == 2
SPAWN_DISTANCE == 1000
PROJECTILE_SPEED == 800
\* Timer::from_seconds(2.0, Once), in ms
PROJECTILE_TTL == 2000
\* 0.15 rad between the projectiles of one volley, in mrad
MULTISHOT_STEP == 150
MAX_CHAIN_DISTANCE == 300
BLADE_REACH == 15
PICKUP_REACH == 50
XP_PER_GEM == 10
\* WeaponStats::default().fire_rate = 0.5 s, in ns
FIRE_RATE_DEFAULT == 500000000
\* an f32 is kept to 8 significant decimal digits: [m, e] stands for
\* m * 10^-e seconds with F32_MANTISSA <= m < 10 * F32_MANTISSA
F32_MANTISSA == 10000000
\* 10^-9 s is one nanosecond of a Duration
NANOS_EXPONENT == 9
\* Timer::from_seconds(60.0, Repeating), in ms
MEGA_WAVE_INTERVAL == 60000
MEGA_WAVE_DISTANCE == 1200
MEGA_WAVE_SIZE == 100
MEGA_WAVE_JITTER == 100
XP_TO_NEXT_LEVEL_DEFAULT == 100
BLADE_COUNT_DEFAULT == 3
\* 2*pi and its quarters, in mrad
TWO_PI == 6283
PI == 3142
HALF_PI == 1571
THREE_HALF_PI == 4712

\* ------------------------------------------------------------------- bounds
\* frames (app.update() calls) one behaviour runs
MaxFrames == 3
\* chain counts the collision harness draws
MaxChain == 2
\* hostiles the collision harness places
MaxHarnessEnemies == 3
\* experience the leveling harness inserts, in steps of XP_PER_GEM
MaxHarnessGems == 45
\* frames a test App runs
MaxHarnessFrames == 2
\* upgrades of each counted kind, and AttackSpeed upgrades, taken beforehand
MaxPriorUpgrades == 1
MaxAttackSpeedUpgrades == 196
\* frames of a run of the shot scenario
MaxScenarioFrames == 8

\* ------------------------------------------------------------ vector algebra
VAdd(a, b) == <<a[1] + b[1], a[2] + b[2]>>
VSub(a, b) == <<a[1] - b[1], a[2] - b[2]>>
Zero == <<0, 0>>
Abs(x) == IF x < 0 THEN -x ELSE x
\* a / b rounded to the nearest integer, b > 0
RoundDiv(a, b) == IF a >= 0 THEN (2 * a + b) \div (2 * b) ELSE -((2 * (-a) + b) \div (2 * b))

\* Vec3::distance squared
Dist2(a, b) == (a[1] - b[1]) * (a[1] - b[1]) + (a[2] - b[2]) * (a[2] - b[2])
\* a.distance(b) < r
Within(a, b, r) == Dist2(a, b) < r * r

RECURSIVE ISqrtIter(_, _, _)
ISqrtIter(n, lo, hi) ==
  IF lo >= hi THEN lo
  ELSE LET mid == (lo + hi + 1) \div 2
       IN IF mid * mid <= n THEN ISqrtIter(n, mid, hi) ELSE ISqrtIter(n, lo, mid - 1)
\* floor of the square root, n < 2^31
ISqrt(n) == ISqrtIter(n, 0, 46340)

\* the length of v in thousandths of a unit
LenMilli(v) ==
  LET n == v[1] * v[1] + v[2] * v[2]
  IN IF n < 2000 THEN ISqrt(n * 1000000) ELSE 1000 * ISqrt(n)

\* Vec3::normalize_or_zero, in thousandths
Normalize(v) ==
  IF v = Zero THEN Zero
  ELSE LET n == v[1] * v[1] + v[2] * v[2]
       IN IF n < 2000
          THEN LET l == ISqrt(n * 1000000)
               IN <<RoundDiv(v[1] * 1000000, l), RoundDiv(v[2] * 1000000, l)>>
          ELSE LET l == ISqrt(n)
               IN <<RoundDiv(v[1] * 1000, l), RoundDiv(v[2] * 1000, l)>>

\* unit * speed * time.delta_seconds(), unit in thousandths and dt in ms
Displacement(unit, speed, dt) ==
  <<RoundDiv(unit[1] * speed * dt, 1000000), RoundDiv(unit[2] * speed * dt, 1000000)>>

\* cos on [0, pi/2] by its Taylor polynomial, x in mrad, the result in thousandths
CosQ(x) ==
  LET t2 == (x * x) \div 1000
      t4 == (t2 * t2) \div 1000
      t6 == (t4 * t2) \div 1000
      t8 == (t6 * t2) \div 1000
  IN 1000 - RoundDiv(t2, 2) + RoundDiv(t4, 24) - RoundDiv(t6, 720) + RoundDiv(t8, 40320)

\* f32::cos, a in mrad, the result in thousandths
Cos(a) ==
  LET r == a % TWO_PI
  IN CASE r = 0 -> 1000
       [] r = HALF_PI -> 0
       [] r = PI -> -1000
       [] r = THREE_HALF_PI -> 0
       [] r < HALF_PI -> CosQ(r)
       [] r > HALF_PI /\ r < PI -> -CosQ(PI - r)
       [] r > PI /\ r < THREE_HALF_PI -> -CosQ(r - PI)
       [] OTHER -> CosQ(TWO_PI - r)

\* f32::sin, a in mrad, the result in thousandths
Sin(a) == Cos(a + THREE_HALF_PI)

\* Quat::from_rotation_z(a).mul_vec3(v), v in thousandths
Rotate(v, a) ==
  <<RoundDiv(v[1] * Cos(a) - v[2] * Sin(a), 1000),
    RoundDiv(v[1] * Sin(a) + v[2] * Cos(a), 1000)>>

\* center + radius * (cos a, sin a)
Polar(center, radius, a) ==
  <<center[1] + RoundDiv(radius * Cos(a), 1000), center[2] + RoundDiv(radius * Sin(a), 1000)>>

\* ------------------------------------------------------------------ inputs
\* time.delta() of one frame, in ms (Time<Virtual> clamps a delta to 250 ms)
DeltaTimes == {100, 250}
\* the frame lengths of the shot scenario: a frame in which a projectile covers
\* less than the hit radius, and one in which it covers several
ScenarioDeltaTimes == {10, 100}
\* the WASD / arrow keys held, as the raw direction of player_movement
Directions == {<<0, 0>>, <<1, 0>>}
\* rng.gen_range(0.0..2*PI) of enemy_spawner, in mrad
SpawnAngles == {0, PI}
\* all_upgrades of show_level_up_menu
Upgrades == {"Multishot", "ChainLightning", "BladeCount", "AttackSpeed"}
\* all_upgrades.choose_multiple(&mut rng, 3)
UpgradeChoices ==
  { <<"Multishot", "ChainLightning", "BladeCount">>,
    <<"Multishot", "ChainLightning", "AttackSpeed">>,
    <<"Multishot", "BladeCount", "AttackSpeed">>,
    <<"ChainLightning", "BladeCount", "AttackSpeed">> }
\* rng.gen_range(0..4) of mega_wave_spawner: North, South, East, West
WaveDirections == {<<0, 1>>, <<0, -1>>, <<1, 0>>, <<-1, 0>>}
\* rng.gen_range(-100.0..100.0) twice, per hostile of a wave
WaveOffsets == {<<-MEGA_WAVE_JITTER, -MEGA_WAVE_JITTER>>, <<0, 0>>, <<MEGA_WAVE_JITTER - 1, MEGA_WAVE_JITTER - 1>>}

\* ------------------------------------------------------------------- state
VARIABLES
  pc,             \* the step of the frame that runs next
  frame,          \* frames started
  systems,        \* the systems added to the Update schedule, with their run_if
  gameState,      \* State<GameState>
  nextState,      \* NextState<GameState>: "None" or the state requested
  input,          \* the frame's delta time, keys and button press
  players,        \* entities with Player
  orbits,         \* entities with BladeOrbit; orbits[i] is the child of players[i]
  blades,         \* entities with OrbitingBlade
  enemies,        \* entities with Enemy
  projectiles,    \* entities with Projectile
  gems,           \* entities with XpGem
  weapon,         \* Res<WeaponStats>
  weaponChanged,  \* WeaponStats changed since update_blade_count last ran
  stats,          \* Res<PlayerStats>
  spawnTimer,     \* EnemySpawnTimer elapsed, ns
  fireTimer,      \* FireRateTimer elapsed, ns
  waveTimer,      \* MegaWaveTimer elapsed, ms
  events,         \* Events<XpDropEvent>: the two buffers
  menus,          \* entities with LevelUpMenu
  buttons,        \* entities with Button and Upgrade
  cmds,           \* Commands queued by the Update systems of this frame
  ran,            \* history: the step that ran last
  pre,            \* history: PlayerStats and NextState before check_level_up ran
  tally,          \* history: counters over the run
  resize          \* history: the last change of blade_count

vars ==
  <<pc, frame, systems, gameState, nextState, input, players, orbits, blades, enemies,
    projectiles, gems, weapon, weaponChanged, stats, spawnTimer, fireTimer, waveTimer,
    events, menus, buttons, cmds, ran, pre, tally, resize>>

\* ---------------------------------------------------------------- schedules
System(name, cond) == [name |-> name, run_if |-> cond]

\* main(): the systems added to Update, in the order the plugins add them.  Only
\* (enemy_movement, boid_steering) is chained: the executor owes the others no
\* order.
GameSystems ==
  << System("player_movement", "Running"),
     System("enemy_spawner", "Running"),
     System("enemy_movement", "Running"),
     System("boid_steering", "Running"),
     System("fire_projectiles", "Running"),
     System("move_projectiles", "Running"),
     System("projectile_collision", "Running"),
     System("rotate_orbiting_blades", "Running"),
     System("orbiting_blade_collision", "Running"),
     System("update_blade_count", "Running"),
     System("spawn_initial_blades", "Running"),
     System("spawn_xp_gems", "Running"),
     System("collect_xp_gems", "Running"),
     System("check_level_up", "Running"),
     System("handle_upgrade_buttons", "always"),
     System("mega_wave_spawner", "Running"),
     System("main_menu_input", "MainMenu") >>

\* the same systems in the opposite order, enemy_movement still before boid_steering
GameSystemsReversed ==
  LET n == Len(GameSystems)
      r == [i \in 1..n |-> GameSystems[n + 1 - i]]
  IN [i \in 1..n |->
        IF r[i].name = "boid_steering" THEN System("enemy_movement", "Running")
        ELSE IF r[i].name = "enemy_movement" THEN System("boid_steering", "Running")
        ELSE r[i]]

\* the orders of the Update systems that a run may follow
Schedules == {GameSystems, GameSystemsReversed}

\* leveling::tests: an App with check_level_up alone, under no run condition
LevelingTestSystems == << System("check_level_up", "always") >>

\* an App with projectile_collision alone
CollisionTestSystems == << System("projectile_collision", "always") >>

\* an App with handle_upgrade_buttons alone, under no run condition
UpgradeTestSystems == << System("handle_upgrade_buttons", "always") >>

\* an App with mega_wave_spawner alone, under no run condition
WaveTestSystems == << System("mega_wave_spawner", "always") >>

\* an App with the systems through which a shot at a hostile passes, in the
\* order of registration and in the opposite order
ScenarioSystems ==
  << System("enemy_movement", "Running"), System("fire_projectiles", "Running"),
     System("move_projectiles", "Running"), System("projectile_collision", "Running"),
     System("spawn_xp_gems", "Running") >>
ScenarioSystemsReversed == [i \in 1..Len(ScenarioSystems) |-> ScenarioSystems[Len(ScenarioSystems) + 1 - i]]
ScenarioSchedules == {ScenarioSystems, ScenarioSystemsReversed}

\* an App with the chained pair of EnemyPlugin alone, under no run condition
BoidTestSystems == << System("enemy_movement", "always"), System("boid_steering", "always") >>

\* an App with the flight and the collision of projectiles, in the order of
\* registration and in the opposite order
FlightTestSystems ==
  << System("move_projectiles", "always"), System("projectile_collision", "always") >>
FlightTestSystemsReversed ==
  << System("projectile_collision", "always"), System("move_projectiles", "always") >>

Registered(name) == \E i \in 1..Len(systems) : systems[i].name = name

\* a schedule that runs every system whatever the state
NextSystemAny(i, st) == IF i > Len(systems) THEN "ApplyDeferred" ELSE systems[i].name

RECURSIVE NextSystem(_, _)
\* the first system from index i on whose run condition holds in state st
NextSystem(i, st) ==
  IF i > Len(systems) THEN "ApplyDeferred"
  ELSE IF systems[i].run_if \in {"always", st} THEN systems[i].name
  ELSE NextSystem(i + 1, st)

After(name) ==
  NextSystem(1 + (CHOOSE i \in 1..Len(systems) : systems[i].name = name), gameState)

FrameCap ==
  IF systems \in Schedules THEN MaxFrames
  ELSE IF systems \in ScenarioSchedules THEN MaxScenarioFrames
  ELSE MaxHarnessFrames

\* ------------------------------------------------------------ initial states
NoInput == [dt |-> 100, dir |-> Zero, space |-> FALSE, click |-> 0]
NoCommands == [despawn |-> <<>>, enemies |-> <<>>, projectiles |-> <<>>, gems |-> <<>>, blades |-> <<>>]
NoEvents == [older |-> <<>>, newer |-> <<>>]
\* the f32 of a whole number of nanoseconds that ends in a zero
SecsF32(nanos) == [m |-> nanos \div 10, e |-> NANOS_EXPONENT - 1]
\* f32 * 0.9, rounded to the digits kept; the result is never zero
TimesNineTenths(f) ==
  LET p == f.m * 9
  IN IF p >= 10 * F32_MANTISSA THEN [m |-> (p + 5) \div 10, e |-> f.e]
     ELSE [m |-> p, e |-> f.e + 1]
RECURSIVE Pow10(_)
Pow10(k) == IF k = 0 THEN 1 ELSE 10 * Pow10(k - 1)
\* Duration::from_secs_f32, in ns: the nearest whole number of nanoseconds
DurationFromSecsF32(f) ==
  IF f.e < NANOS_EXPONENT THEN f.m * Pow10(NANOS_EXPONENT - f.e)
  ELSE IF f.e - NANOS_EXPONENT > 8 THEN 0
  ELSE (f.m + Pow10(f.e - NANOS_EXPONENT) \div 2) \div Pow10(f.e - NANOS_EXPONENT)
\* WeaponStats::default()
WeaponDefault ==
  [multishot |-> 1, chain_lightning |-> 0, blade_count |-> BLADE_COUNT_DEFAULT,
   fire_rate |-> SecsF32(FIRE_RATE_DEFAULT)]
\* PlayerStats::default()
StatsDefault == [xp |-> 0, level |-> 1, xp_to_next_level |-> XP_TO_NEXT_LEVEL_DEFAULT]
NoResize == [from |-> 0, to |-> 0, at |-> -1]
TallyZero ==
  [removed |-> 0, emitted |-> 0, trickle |-> 0, runMs |-> 0, sinceStart |-> TRUE,
   level0 |-> 1, leveled |-> FALSE]

\* the angle of blade `slot` of a ring of `of`, in mrad: (i / blade_count) * 2 * PI
BladeAngle(slot, of) == (TWO_PI * slot) \div of

\* the blades one loop `for i in 0..weapon_stats.blade_count` spawns under an orbit
Ring(orbit, n, born) ==
  [i \in 1..n |-> [orbit |-> orbit, slot |-> i - 1, of |-> n, gpos |-> Zero, born |-> born]]

\* transform propagation: a blade's GlobalTransform from its player and its orbit
Propagate(b, ps, os) ==
  [b EXCEPT !.gpos = Polar(ps[b.orbit].pos, ORBITING_BLADE_RADIUS, os[b.orbit].rot + BladeAngle(b.slot, b.of))]

\* the App that main() builds, before its first frame
ProgramStart ==
  /\ pc = "First" /\ frame = 0 /\ systems \in Schedules
  /\ gameState = "MainMenu" /\ nextState = "None" /\ input = NoInput
  /\ players = <<>> /\ orbits = <<>> /\ blades = <<>> /\ enemies = <<>>
  /\ projectiles = <<>> /\ gems = <<>>
  /\ weapon = WeaponDefault /\ weaponChanged = TRUE /\ stats = StatsDefault
  /\ spawnTimer = 0 /\ fireTimer = 0 /\ waveTimer = 0
  /\ events = NoEvents /\ menus = 0 /\ buttons = <<>> /\ cmds = NoCommands
  /\ ran = "init" /\ pre = [stats |-> StatsDefault, nextState |-> "None"]
  /\ tally = TallyZero /\ resize = NoResize

\* --------------------------------------------------------- sequence helpers
RECURSIVE KeepFrom(_, _, _)
\* seq without the elements whose index is in `gone`, from index i on
KeepFrom(seq, gone, i) ==
  IF i > Len(seq) THEN <<>>
  ELSE (IF i \in gone THEN <<>> ELSE <<seq[i]>>) \o KeepFrom(seq, gone, i + 1)

\* the entities of one kind that the queued despawn commands name
Despawned(q, kind) == {q[i].idx : i \in {j \in 1..Len(q) : q[j].kind = kind}}

RECURSIVE Ascending(_)
\* a finite set of integers as an ascending sequence
Ascending(S) ==
  IF S = {} THEN <<>>
  ELSE LET m == CHOOSE a \in S : \A b \in S : a <= b IN <<m>> \o Ascending(S \ {m})

\* the first index, in iteration order, at the least squared distance from p;
\* 0 when `cand` is empty (the loops keep a candidate only on a strict <)
NearestIn(p, es, cand) ==
  IF cand = {} THEN 0
  ELSE CHOOSE i \in cand :
         /\ \A j \in cand : Dist2(p, es[i].pos) <= Dist2(p, es[j].pos)
         /\ \A j \in cand : j < i => Dist2(p, es[i].pos) < Dist2(p, es[j].pos)

\* Timer::tick of a repeating timer: [elapsed, just_finished]
TickRepeating(elapsed, duration, delta) ==
  LET e == elapsed + delta
  IN [elapsed |-> IF e < duration THEN e ELSE IF duration = 0 THEN 0 ELSE e % duration,
      just_finished |-> e >= duration]

\* ------------------------------------------------------------------ systems
\* player_movement
PlayerMovement(ps, dir, dt) ==
  IF Len(ps) = 1
  THEN <<[ps[1] EXCEPT !.pos = VAdd(ps[1].pos, Displacement(Normalize(dir), PLAYER_SPEED, dt))]>>
  ELSE ps

\* enemy_movement that seeks the first player found when there are several
EnemyMovementFirst(es, ps, dt) ==
  IF Len(ps) >= 1
  THEN [i \in 1..Len(es) |->
          [es[i] EXCEPT !.pos =
             VAdd(es[i].pos, Displacement(Normalize(VSub(ps[1].pos, es[i].pos)), ENEMY_SPEED, dt))]]
  ELSE es

\* hostiles that stand still
EnemyMovementStill(es, ps, dt) == es

\* enemy_movement
EnemyMovement(es, ps, dt) ==
  IF Len(ps) = 1
  THEN [i \in 1..Len(es) |->
          [es[i] EXCEPT !.pos =
             VAdd(es[i].pos, Displacement(Normalize(VSub(ps[1].pos, es[i].pos)), ENEMY_SPEED, dt))]]
  ELSE es

\* a steering that pushes only the first hostile of a pair
SeparateFirst(es, i, j, dt) ==
  LET threshold == (ENEMY_SIZE * 3) \div 2
      v == VSub(es[i].pos, es[j].pos)
      d2 == Dist2(es[i].pos, es[j].pos)
  IN IF d2 < threshold * threshold /\ d2 > 0
     THEN LET unit == Normalize(v)
              force == ((threshold * 1000 - LenMilli(v)) * 1000) \div (threshold * 1000)
              step == RoundDiv(force * ENEMY_SPEED * dt, 2000)
              push == <<RoundDiv(unit[1] * step, 1000000), RoundDiv(unit[2] * step, 1000000)>>
          IN [es EXCEPT ![i].pos = VAdd(es[i].pos, push)]
     ELSE es

\* boid_steering, one pair: the two hostiles pushed apart
Separate(es, i, j, dt) ==
  LET threshold == (ENEMY_SIZE * 3) \div 2
      v == VSub(es[i].pos, es[j].pos)
      d2 == Dist2(es[i].pos, es[j].pos)
  IN IF d2 < threshold * threshold /\ d2 > 0
     THEN LET unit == Normalize(v)
              force == ((threshold * 1000 - LenMilli(v)) * 1000) \div (threshold * 1000)
              step == RoundDiv(force * ENEMY_SPEED * dt, 2000)
              push == <<RoundDiv(unit[1] * step, 1000000), RoundDiv(unit[2] * step, 1000000)>>
          IN [es EXCEPT ![i].pos = VAdd(es[i].pos, push), ![j].pos = VSub(es[j].pos, push)]
     ELSE es

RECURSIVE BoidFrom(_, _, _, _)
\* boid_steering: iter_combinations_mut, pair (i, j) and the pairs after it
BoidFrom(es, i, j, dt) ==
  IF i >= Len(es) THEN es
  ELSE IF j > Len(es) THEN BoidFrom(es, i + 1, i + 2, dt)
  ELSE BoidFrom(Separate(es, i, j, dt), i, j + 1, dt)

BoidSteering(es, dt) == BoidFrom(es, 1, 2, dt)

\* fire_projectiles: the volley aimed at the nearest hostile
Volley(p, es, multishot) ==
  LET target == es[NearestIn(p, es, 1..Len(es))].pos
      direction == Normalize(VSub(target, p))
  IN [i \in 1..multishot |->
        [pos |-> p,
         dir |-> Rotate(direction, ((i - 1) * MULTISHOT_STEP - ((multishot - 1) * MULTISHOT_STEP) \div 2) % TWO_PI),
         ttl |-> 0]]

\* a flight that does not count its time
MoveProjectileTimeless(pr, dt) ==
  [pr EXCEPT !.pos = VAdd(pr.pos, Displacement(pr.dir, PROJECTILE_SPEED, dt))]

\* move_projectiles: flight, and the time-to-live timer (TimerMode::Once)
MoveProjectile(pr, dt) ==
  [pr EXCEPT !.pos = VAdd(pr.pos, Displacement(pr.dir, PROJECTILE_SPEED, dt)),
             !.ttl = IF pr.ttl + dt >= PROJECTILE_TTL THEN PROJECTILE_TTL ELSE pr.ttl + dt]

\* projectile_collision, the scan: for every projectile the first hostile, in
\* iteration order, within the hit radius
FirstHits(ps, es) ==
  LET firstOf(i) == {j \in 1..Len(es) : /\ Within(ps[i].pos, es[j].pos, ENEMY_SIZE \div 2)
                                          /\ \A k \in 1..(j - 1) : ~Within(ps[i].pos, es[k].pos, ENEMY_SIZE \div 2)}
      hitting == Ascending({i \in 1..Len(ps) : firstOf(i) # {}})
  IN [n \in 1..Len(hitting) |-> <<hitting[n], CHOOSE j \in firstOf(hitting[n]) : TRUE>>]

\* a scan that goes on after its first hit
HitsAll(ps, es) == FirstHits(ps, es)

\* the (projectile, hostile) pairs that one run resolves: it returns after the first
Hits(ps, es) ==
  LET all == FirstHits(ps, es) IN IF all = <<>> THEN <<>> ELSE <<all[1]>>

\* the hostiles a chain hop may strike: not chained yet, nearer than the chain distance
ChainCandidatesAny(es, chained, last) ==
  {j \in 1..Len(es) : Dist2(last, es[j].pos) < MAX_CHAIN_DISTANCE * MAX_CHAIN_DISTANCE}

ChainCandidates(es, chained, last) ==
  {j \in 1..Len(es) : /\ \A c \in 1..Len(chained) : chained[c] # j
                      /\ Dist2(last, es[j].pos) < MAX_CHAIN_DISTANCE * MAX_CHAIN_DISTANCE}

\* a chain cut after its first hop
ChainOneHop(es, chained, last, n) ==
  LET t == NearestIn(last, es, ChainCandidates(es, chained, last))
  IN IF n = 0 \/ t = 0 \/ Len(chained) > 1 THEN chained ELSE Append(chained, t)

\* a chain whose hops take the first hostile within the chain distance, not the nearest
RECURSIVE ChainFirstInRange(_, _, _, _)
ChainFirstInRange(es, chained, last, n) ==
  LET cand == ChainCandidates(es, chained, last)
      t == IF cand = {} THEN 0 ELSE CHOOSE i \in cand : \A j \in cand : i <= j
  IN IF n = 0 \/ t = 0 THEN chained
     ELSE ChainFirstInRange(es, Append(chained, t), es[t].pos, n - 1)

RECURSIVE Chain(_, _, _, _)
\* the chain-lightning loop: chained_targets after at most n more hops from last_pos
Chain(es, chained, last, n) ==
  LET t == NearestIn(last, es, ChainCandidates(es, chained, last))
  IN IF n = 0 \/ t = 0 THEN chained
     ELSE Chain(es, Append(chained, t), es[t].pos, n - 1)

\* the hostiles one resolved hit strikes: the one hit, then the chain
Struck(es, j, chain) == IF chain > 0 THEN Chain(es, <<j>>, es[j].pos, chain) ELSE <<j>>

\* a pass that keeps no list of the hostiles already hit
RECURSIVE BladeHitsRepeat(_, _, _, _)
BladeHitsRepeat(bl, es, b, hit) ==
  IF b > Len(bl) THEN hit
  ELSE BladeHitsRepeat(bl, es, b + 1,
         hit \o Ascending({j \in 1..Len(es) :
                  Within(bl[b].gpos, es[j].pos, ENEMY_SIZE \div 2 + BLADE_REACH)}))

\* orbiting_blade_collision: the hostiles hit, in the order they are pushed to hit_enemies
RECURSIVE BladeHits(_, _, _, _)
BladeHits(bl, es, b, hit) ==
  IF b > Len(bl) THEN hit
  ELSE BladeHits(bl, es, b + 1,
         hit \o Ascending({j \in 1..Len(es) :
                  /\ \A h \in 1..Len(hit) : hit[h] # j
                  /\ Within(bl[b].gpos, es[j].pos, ENEMY_SIZE \div 2 + BLADE_REACH)}))

\* check_level_up run again and again within one tick
CheckLevelUpCascade(st) ==
  LET RECURSIVE Up(_)
      Up(s) == IF s.xp >= s.xp_to_next_level
               THEN Up([xp |-> s.xp - s.xp_to_next_level, level |-> s.level + 1,
                        xp_to_next_level |-> (s.xp_to_next_level * 3) \div 2])
               ELSE s
  IN [stats |-> Up(st), paused |-> st.xp >= st.xp_to_next_level]

\* check_level_up that doubles the requirement
CheckLevelUpDouble(st) ==
  IF st.xp >= st.xp_to_next_level
  THEN [stats |-> [xp |-> st.xp - st.xp_to_next_level, level |-> st.level + 1,
                   xp_to_next_level |-> st.xp_to_next_level * 2],
        paused |-> TRUE]
  ELSE [stats |-> st, paused |-> FALSE]

\* check_level_up that pauses on every run
CheckLevelUpAlwaysPause(st) ==
  IF st.xp >= st.xp_to_next_level
  THEN [stats |-> [xp |-> st.xp - st.xp_to_next_level, level |-> st.level + 1,
                   xp_to_next_level |-> (st.xp_to_next_level * 3) \div 2],
        paused |-> TRUE]
  ELSE [stats |-> st, paused |-> TRUE]

\* check_level_up that lowers the requirement
CheckLevelUpCheaper(st) ==
  IF st.xp >= st.xp_to_next_level
  THEN [stats |-> [xp |-> st.xp - st.xp_to_next_level, level |-> st.level + 1,
                   xp_to_next_level |-> (st.xp_to_next_level * 2) \div 3],
        paused |-> TRUE]
  ELSE [stats |-> st, paused |-> FALSE]

\* check_level_up: the new PlayerStats, and whether Paused is requested.
\* (xp_to_next_level as f32 * 1.5) as u32 is exact below 2^24.
CheckLevelUp(st) ==
  IF st.xp >= st.xp_to_next_level
  THEN [stats |-> [xp |-> st.xp - st.xp_to_next_level, level |-> st.level + 1,
                   xp_to_next_level |-> (st.xp_to_next_level * 3) \div 2],
        paused |-> TRUE]
  ELSE [stats |-> st, paused |-> FALSE]

\* an upgrade that also touches a field that is not its own
ApplyUpgradeTwo(w, upgrade) ==
  CASE upgrade = "Multishot" -> [w EXCEPT !.multishot = @ + 1, !.chain_lightning = @ + 1]
    [] upgrade = "ChainLightning" -> [w EXCEPT !.chain_lightning = @ + 1]
    [] upgrade = "BladeCount" -> [w EXCEPT !.blade_count = @ + 1, !.multishot = @ + 1]
    [] upgrade = "AttackSpeed" -> [w EXCEPT !.fire_rate = TimesNineTenths(@), !.blade_count = @ + 1]

\* an AttackSpeed upgrade that takes a fixed amount off the interval
ApplyUpgradeSubtract(w, upgrade) ==
  CASE upgrade = "Multishot" -> [w EXCEPT !.multishot = @ + 1]
    [] upgrade = "ChainLightning" -> [w EXCEPT !.chain_lightning = @ + 1]
    [] upgrade = "BladeCount" -> [w EXCEPT !.blade_count = @ + 1]
    [] upgrade = "AttackSpeed" -> [w EXCEPT !.fire_rate.m = @ - F32_MANTISSA]

\* handle_upgrade_buttons: the match on the upgrade pressed
ApplyUpgrade(w, upgrade) ==
  CASE upgrade = "Multishot" -> [w EXCEPT !.multishot = @ + 1]
    [] upgrade = "ChainLightning" -> [w EXCEPT !.chain_lightning = @ + 1]
    [] upgrade = "BladeCount" -> [w EXCEPT !.blade_count = @ + 1]
    [] upgrade = "AttackSpeed" -> [w EXCEPT !.fire_rate = TimesNineTenths(@)]

\* a wave that is one hostile short
MegaWaveShort(p, direction, odd, even) ==
  LET center == <<p[1] + direction[1] * MEGA_WAVE_DISTANCE, p[2] + direction[2] * MEGA_WAVE_DISTANCE>>
  IN [i \in 1..(MEGA_WAVE_SIZE - 1) |->
        [pos |-> VAdd(center, IF i % 2 = 1 THEN odd ELSE even),
         origin |-> center, by |-> "mega_wave_spawner"]]

\* mega_wave_spawner: the spawn commands of one wave around the player at p,
\* the offsets of its hostiles alternating between odd and even
MegaWave(p, direction, odd, even) ==
  LET center == <<p[1] + direction[1] * MEGA_WAVE_DISTANCE, p[2] + direction[2] * MEGA_WAVE_DISTANCE>>
  IN [i \in 1..MEGA_WAVE_SIZE |->
        [pos |-> VAdd(center, IF i % 2 = 1 THEN odd ELSE even),
         origin |-> center, by |-> "mega_wave_spawner"]]

\* a collection that takes every pickup, however far
CollectableAll(ps, gs) == IF Len(ps) = 1 THEN [i \in 1..Len(gs) |-> i] ELSE <<>>

\* collect_xp_gems: the pickups within reach of the player, in iteration order
Collectable(ps, gs) ==
  IF Len(ps) = 1
  THEN Ascending({i \in 1..Len(gs) : Within(ps[1].pos, gs[i].pos, PLAYER_SIZE \div 2 + PICKUP_REACH)})
  ELSE <<>>

\* hide_level_up_menu
HideLevelUpMenu(btns, nMenus) == IF nMenus = 1 THEN <<>> ELSE btns

\* show_level_up_menu
ShowLevelUpMenu(btns, nMenus, chosen) ==
  IF nMenus = 1 THEN btns \o [i \in 1..Len(chosen) |-> [upgrade |-> chosen[i]]] ELSE btns

\* ---------------------------------------------------------- initial states
\* A frame of the first Running period, between two frames: one player at the
\* origin, its orbit turned by MidRunRotation, the blades that the first
\* Running frame spawned, no upgrade taken yet, and hostiles, projectiles,
\* pickups and experience drawn from the sets below.
MidRunRotation == 200
MidRunEnemies ==
  { <<>>, <<[pos |-> <<105, 0>>]>>, <<[pos |-> <<105, 0>>], [pos |-> <<120, 0>>]>> }
MidRunProjectiles == { <<>>, <<[pos |-> Zero, dir |-> <<1000, 0>>, ttl |-> 0]>> }
MidRunGems == { <<>>, <<[pos |-> <<30, 0>>]>>, <<[pos |-> <<30, 0>>], [pos |-> <<200, 0>>]>> }
MidRunXp == {0, 90}
\* check_level_up compares before collect_xp_gems adds when it runs first, so
\* a frame can end with the whole requirement collected at the old level
MidRunXpFull == XP_TO_NEXT_LEVEL_DEFAULT

MidRun ==
  /\ pc = "First" /\ frame = 0 /\ systems \in Schedules
  /\ gameState = "Running" /\ nextState = "None" /\ input = NoInput
  /\ players = <<[pos |-> Zero]>>
  /\ orbits = <<[rot |-> MidRunRotation, added |-> FALSE]>>
  /\ blades = LET both == Ring(1, BLADE_COUNT_DEFAULT, 0) \o Ring(1, BLADE_COUNT_DEFAULT, 0)
              IN [i \in 1..Len(both) |-> Propagate(both[i], players, orbits)]
  /\ enemies \in MidRunEnemies
  /\ projectiles \in MidRunProjectiles
  /\ gems \in MidRunGems
  /\ weapon = WeaponDefault /\ weaponChanged = FALSE
  /\ stats \in {[xp |-> v, level |-> 1, xp_to_next_level |-> XP_TO_NEXT_LEVEL_DEFAULT] :
                  v \in IF systems = GameSystemsReversed THEN MidRunXp \cup {MidRunXpFull}
                        ELSE MidRunXp}
  /\ spawnTimer = 0 /\ fireTimer = 0 /\ waveTimer = 0
  /\ events = NoEvents /\ menus = 1 /\ buttons = <<>> /\ cmds = NoCommands
  /\ ran = "init" /\ pre = [stats |-> StatsDefault, nextState |-> "None"]
  /\ tally = [TallyZero EXCEPT !.sinceStart = FALSE] /\ resize = NoResize

\* The level-up pause that MidRun reaches when the player, standing still with
\* 90 xp, collects the pickup next to it in a frame of NoInput.dt: the menu is
\* up with the three upgrades drawn for it, and no button has been pressed yet.
\* A hostile may be on its way in, out of reach of the blades; and in the order
\* of registration a projectile may have killed another one next to the player
\* in that frame, whose event spawn_xp_gems has read and whose pickup lies there.
MidPauseEnemies == { <<>>, <<[pos |-> <<300, 0>>]>> }
MidPauseDrop == [pos |-> <<30, 0>>, by |-> "projectile_collision", read |-> TRUE]
\* collect_xp_gems takes every pickup in reach in one pass and check_level_up
\* subtracts one requirement only, so the pause can begin with the requirement
\* of the new level already met: sixteen pickups lay in reach of the player
MidPauseXp == {0, (XP_TO_NEXT_LEVEL_DEFAULT * 3) \div 2}
MidPause ==
  /\ pc = "First" /\ frame = 0 /\ systems \in Schedules
  /\ gameState = "Paused" /\ nextState = "None" /\ input = NoInput
  /\ players = <<[pos |-> Zero]>>
  /\ orbits = <<[rot |-> MidRunRotation + ORBITING_BLADE_ROTATION_SPEED * NoInput.dt, added |-> FALSE]>>
  /\ blades = LET both == Ring(1, BLADE_COUNT_DEFAULT, 0) \o Ring(1, BLADE_COUNT_DEFAULT, 0)
              IN [i \in 1..Len(both) |-> Propagate(both[i], players, orbits)]
  /\ enemies \in MidPauseEnemies /\ projectiles = <<>>
  /\ \/ gems = <<>> /\ events = NoEvents
     \/ /\ systems = GameSystems /\ enemies # <<>>
        /\ gems = <<[pos |-> MidPauseDrop.pos]>>
        /\ events = [older |-> <<>>, newer |-> <<MidPauseDrop>>]
  /\ weapon = WeaponDefault /\ weaponChanged = FALSE
  /\ stats \in {[xp |-> v, level |-> 2, xp_to_next_level |-> (XP_TO_NEXT_LEVEL_DEFAULT * 3) \div 2] :
                  v \in IF enemies = <<>> THEN MidPauseXp ELSE {0}}
  /\ spawnTimer = NoInput.dt * 1000000 /\ fireTimer = NoInput.dt * 1000000
  /\ waveTimer = NoInput.dt
  /\ menus = 1 /\ cmds = NoCommands
  /\ \E chosen \in UpgradeChoices : buttons = ShowLevelUpMenu(<<>>, 1, chosen)
  /\ ran = "init" /\ pre = [stats |-> StatsDefault, nextState |-> "None"]
  /\ tally = [TallyZero EXCEPT !.sinceStart = FALSE, !.level0 = 2] /\ resize = NoResize

Init == ProgramStart \/ MidRun \/ MidPause

\* leveling::tests::test_level_up_logic, with the PlayerStats it inserts drawn
\* from the records the game passes through
HarnessLevels == {<<1, 100>>, <<2, 150>>, <<3, 225>>}
InitLeveling ==
  /\ pc = "First" /\ frame = 0 /\ systems = LevelingTestSystems
  /\ gameState = "MainMenu" /\ nextState = "None" /\ input = NoInput
  /\ players = <<>> /\ orbits = <<>> /\ blades = <<>> /\ enemies = <<>>
  /\ projectiles = <<>> /\ gems = <<>>
  /\ weapon = WeaponDefault /\ weaponChanged = TRUE
  /\ stats \in {[xp |-> XP_PER_GEM * g, level |-> l[1], xp_to_next_level |-> l[2]] :
                  g \in 0..MaxHarnessGems, l \in HarnessLevels}
  /\ spawnTimer = 0 /\ fireTimer = 0 /\ waveTimer = 0
  /\ events = NoEvents /\ menus = 0 /\ buttons = <<>> /\ cmds = NoCommands
  /\ ran = "init" /\ pre = [stats |-> StatsDefault, nextState |-> "None"]
  /\ tally = [TallyZero EXCEPT !.sinceStart = FALSE, !.level0 = stats.level] /\ resize = NoResize

\* projectile_collision alone, on hostiles and projectiles placed on a line
HarnessEnemyPositions == {<<0, 0>>, <<200, 0>>, <<-200, 0>>, <<299, 0>>, <<500, 0>>}
HarnessProjectilePositions == {<<5, 0>>, <<205, 0>>}
SeqsUpTo(S, n) == UNION {[1..m -> S] : m \in 1..n}
InitCollision ==
  /\ pc = "First" /\ frame = 0 /\ systems = CollisionTestSystems
  /\ gameState = "Running" /\ nextState = "None" /\ input = NoInput
  /\ players = <<>> /\ orbits = <<>> /\ blades = <<>>
  /\ enemies \in {[i \in 1..Len(q) |-> [pos |-> q[i]]] : q \in SeqsUpTo(HarnessEnemyPositions, MaxHarnessEnemies)}
  /\ projectiles \in {[i \in 1..Len(q) |-> [pos |-> q[i], dir |-> <<1000, 0>>, ttl |-> 0]] :
                        q \in SeqsUpTo(HarnessProjectilePositions, 2)}
  /\ gems = <<>>
  /\ weapon \in {[WeaponDefault EXCEPT !.chain_lightning = k] : k \in 0..MaxChain}
  /\ weaponChanged = TRUE /\ stats = StatsDefault
  /\ spawnTimer = 0 /\ fireTimer = 0 /\ waveTimer = 0
  /\ events = NoEvents /\ menus = 0 /\ buttons = <<>> /\ cmds = NoCommands
  /\ ran = "init" /\ pre = [stats |-> StatsDefault, nextState |-> "None"]
  /\ tally = [TallyZero EXCEPT !.sinceStart = FALSE] /\ resize = NoResize

\* handle_upgrade_buttons alone, on the menu of a level-up, with the
\* WeaponStats left by earlier upgrades: k of each counted kind and a of
\* AttackSpeed
RECURSIVE Upgraded(_, _, _)
Upgraded(w, upgrade, n) ==
  IF n = 0 THEN w
  ELSE IF n = 1 THEN ApplyUpgrade(w, upgrade)
  ELSE LET half == Upgraded(w, upgrade, n \div 2)
       IN IF half = w THEN w ELSE Upgraded(half, upgrade, n - n \div 2)
PriorWeapon(k, a) ==
  Upgraded(Upgraded(Upgraded(Upgraded(WeaponDefault, "Multishot", k), "ChainLightning", k),
                    "BladeCount", k), "AttackSpeed", a)
InitUpgrades ==
  /\ pc = "First" /\ frame = 0 /\ systems = UpgradeTestSystems
  /\ gameState = "Paused" /\ nextState = "None" /\ input = NoInput
  /\ players = <<>> /\ orbits = <<>> /\ blades = <<>> /\ enemies = <<>>
  /\ projectiles = <<>> /\ gems = <<>>
  /\ weapon \in {PriorWeapon(k, a) : k \in 0..MaxPriorUpgrades, a \in 0..MaxAttackSpeedUpgrades}
  /\ weaponChanged = TRUE /\ stats = StatsDefault
  /\ spawnTimer = 0 /\ fireTimer = 0 /\ waveTimer = 0
  /\ events = NoEvents /\ menus = 1 /\ cmds = NoCommands
  /\ \E chosen \in UpgradeChoices : buttons = ShowLevelUpMenu(<<>>, 1, chosen)
  /\ ran = "init" /\ pre = [stats |-> StatsDefault, nextState |-> "None"]
  /\ tally = [TallyZero EXCEPT !.sinceStart = FALSE] /\ resize = NoResize

\* mega_wave_spawner alone, with the wave timer a frame or two short of its
\* interval, a player, and a hostile and a pickup already in the world
HarnessWaveTimers == {MEGA_WAVE_INTERVAL - 200, MEGA_WAVE_INTERVAL - 100}
HarnessPlayerPositions == {Zero, <<500, -300>>}
InitWave ==
  /\ pc = "First" /\ frame = 0 /\ systems = WaveTestSystems
  /\ gameState = "Running" /\ nextState = "None" /\ input = NoInput
  /\ \E p \in HarnessPlayerPositions : players = <<[pos |-> p]>>
  /\ orbits = <<>> /\ blades = <<>>
  /\ enemies \in {<<>>, <<[pos |-> <<105, 0>>]>>}
  /\ projectiles = <<>> /\ gems = <<[pos |-> <<200, 0>>]>>
  /\ weapon = WeaponDefault /\ weaponChanged = TRUE /\ stats = StatsDefault
  /\ spawnTimer = 0 /\ fireTimer = 0 /\ waveTimer \in HarnessWaveTimers
  /\ events = NoEvents /\ menus = 0 /\ buttons = <<>> /\ cmds = NoCommands
  /\ ran = "init" /\ pre = [stats |-> StatsDefault, nextState |-> "None"]
  /\ tally = [TallyZero EXCEPT !.sinceStart = FALSE] /\ resize = NoResize

\* the shot scenario: the player at the origin, one hostile 50 units east of
\* it, the default weapon, and the fire timer one short frame from elapsing
ScenarioHostile == [pos |-> <<50, 0>>]
InitScenario ==
  /\ pc = "First" /\ frame = 0 /\ systems \in ScenarioSchedules
  /\ gameState = "Running" /\ nextState = "None" /\ input = NoInput
  /\ players = <<[pos |-> Zero]>> /\ orbits = <<>> /\ blades = <<>>
  /\ enemies = <<ScenarioHostile>> /\ projectiles = <<>> /\ gems = <<>>
  /\ weapon = WeaponDefault /\ weaponChanged = TRUE /\ stats = StatsDefault
  /\ spawnTimer = 0 /\ waveTimer = 0
  /\ fireTimer = DurationFromSecsF32(weapon.fire_rate) - 10000000
  /\ events = NoEvents /\ menus = 0 /\ buttons = <<>> /\ cmds = NoCommands
  /\ ran = "init" /\ pre = [stats |-> StatsDefault, nextState |-> "None"]
  /\ tally = [TallyZero EXCEPT !.sinceStart = FALSE] /\ resize = NoResize

\* enemy_movement and boid_steering alone, with no player, on two hostiles
\* placed 5 units apart along an axis or a diagonal
HarnessPairBases == {Zero, <<100, 50>>, <<-300, 7>>}
HarnessPairOffsets == {<<5, 0>>, <<-5, 0>>, <<0, 5>>, <<0, -5>>, <<3, 4>>, <<-4, 3>>}
InitBoid ==
  /\ pc = "First" /\ frame = 0 /\ systems = BoidTestSystems
  /\ gameState = "Running" /\ nextState = "None" /\ input = NoInput
  /\ players = <<>> /\ orbits = <<>> /\ blades = <<>>
  /\ \E b \in HarnessPairBases, o \in HarnessPairOffsets :
       enemies = <<[pos |-> b], [pos |-> VAdd(b, o)]>>
  /\ projectiles = <<>> /\ gems = <<>>
  /\ weapon = WeaponDefault /\ weaponChanged = TRUE /\ stats = StatsDefault
  /\ spawnTimer = 0 /\ fireTimer = 0 /\ waveTimer = 0
  /\ events = NoEvents /\ menus = 0 /\ buttons = <<>> /\ cmds = NoCommands
  /\ ran = "init" /\ pre = [stats |-> StatsDefault, nextState |-> "None"]
  /\ tally = [TallyZero EXCEPT !.sinceStart = FALSE] /\ resize = NoResize

\* move_projectiles and projectile_collision alone: one or two projectiles
\* flying east, fresh or within a frame or two of their time to live, and
\* possibly a hostile in their way
HarnessFlightTimes == {0, PROJECTILE_TTL - 200, PROJECTILE_TTL - 100}
HarnessFlightPositions == {<<5, 0>>, <<-80, 0>>}
InitFlight ==
  /\ pc = "First" /\ frame = 0 /\ systems \in {FlightTestSystems, FlightTestSystemsReversed}
  /\ gameState = "Running" /\ nextState = "None" /\ input = NoInput
  /\ players = <<>> /\ orbits = <<>> /\ blades = <<>>
  /\ enemies \in {<<>>, <<[pos |-> Zero]>>}
  /\ projectiles \in {[i \in 1..Len(q) |-> [pos |-> q[i][1], dir |-> <<1000, 0>>, ttl |-> q[i][2]]] :
                        q \in SeqsUpTo(HarnessFlightPositions \X HarnessFlightTimes, 2)}
  /\ gems = <<>>
  /\ weapon = WeaponDefault /\ weaponChanged = TRUE /\ stats = StatsDefault
  /\ spawnTimer = 0 /\ fireTimer = 0 /\ waveTimer = 0
  /\ events = NoEvents /\ menus = 0 /\ buttons = <<>> /\ cmds = NoCommands
  /\ ran = "init" /\ pre = [stats |-> StatsDefault, nextState |-> "None"]
  /\ tally = [TallyZero EXCEPT !.sinceStart = FALSE] /\ resize = NoResize

\* ------------------------------------------------------------------ the frame
\* whether a system named in `names` runs in a frame spent in state st
Runs(names, st) ==
  \E i \in 1..Len(systems) : systems[i].name \in names /\ systems[i].run_if \in {"always", st}

TimedSystems ==
  {"player_movement", "enemy_spawner", "enemy_movement", "boid_steering", "fire_projectiles",
   "move_projectiles", "rotate_orbiting_blades", "mega_wave_spawner"}

\* The First schedule: Events::update, and the frame's inputs.  An input that
\* no system of the frame reads is left at its NoInput value.
First ==
  /\ pc = "First" /\ frame < FrameCap
  /\ frame' = frame + 1
  /\ events' = [older |-> events.newer, newer |-> <<>>]
  /\ LET upcoming == IF nextState # "None" THEN nextState ELSE gameState
     IN \E dt \in (IF ~Runs(TimedSystems, upcoming) THEN {NoInput.dt}
                    ELSE IF systems \in ScenarioSchedules THEN ScenarioDeltaTimes
                    ELSE DeltaTimes),
           dir \in (IF Runs({"player_movement"}, upcoming) THEN Directions ELSE {NoInput.dir}),
           space \in (IF Runs({"main_menu_input"}, upcoming) THEN BOOLEAN ELSE {FALSE}),
           click \in (IF Runs({"handle_upgrade_buttons"}, upcoming) THEN 0..Len(buttons) ELSE {0}) :
          input' = [dt |-> dt, dir |-> dir, space |-> space, click |-> click]
  /\ tally' = [tally EXCEPT !.level0 = stats.level]
  /\ pc' = "StateTransition" /\ ran' = "First"
  /\ UNCHANGED <<systems, gameState, nextState, players, orbits, blades, enemies, projectiles,
                 gems, weapon, weaponChanged, stats, spawnTimer, fireTimer, waveTimer, menus,
                 buttons, cmds, pre, resize>>

\* apply_state_transition: OnExit of the state left, OnEnter of the state entered
\* (spawn_player and setup_game_ui; show_level_up_menu; hide_level_up_menu)
StateTransition ==
  /\ pc = "StateTransition"
  /\ LET moves == nextState # "None" /\ nextState # gameState
         plugins == systems \in Schedules
         left == IF moves /\ plugins /\ gameState \in {"Running", "Paused"}
                 THEN HideLevelUpMenu(buttons, menus) ELSE buttons
         enterRunning == moves /\ plugins /\ nextState = "Running"
         enterPaused == moves /\ plugins /\ nextState = "Paused"
     IN /\ gameState' = IF moves THEN nextState ELSE gameState
        /\ players' = IF enterRunning THEN Append(players, [pos |-> Zero]) ELSE players
        /\ orbits' = IF enterRunning THEN Append(orbits, [rot |-> 0, added |-> TRUE]) ELSE orbits
        /\ menus' = IF enterRunning THEN menus + 1 ELSE menus
        /\ \E chosen \in (IF enterPaused THEN UpgradeChoices ELSE {<<>>}) :
             buttons' = IF enterPaused THEN ShowLevelUpMenu(left, menus, chosen) ELSE left
        /\ pc' = NextSystem(1, gameState')
  /\ nextState' = "None"
  /\ tally' = [tally EXCEPT !.leveled = FALSE]
  /\ ran' = "StateTransition"
  /\ UNCHANGED <<frame, systems, input, blades, enemies, projectiles, gems, weapon,
                 weaponChanged, stats, spawnTimer, fireTimer, waveTimer, events, cmds, pre, resize>>

\* a system of the Update schedule runs, and the next one is due
Step(name) ==
  /\ pc = name /\ pc' = After(name) /\ ran' = name
  /\ UNCHANGED <<frame, systems, gameState, input>>

Despawn(kind, idx, by) == [kind |-> kind, idx |-> idx, by |-> by]
XpDropEvent(pos, by) == [pos |-> pos, by |-> by, read |-> FALSE]

main_menu_input ==
  /\ Step("main_menu_input")
  /\ nextState' = IF input.space THEN "Running" ELSE nextState
  /\ UNCHANGED <<players, orbits, blades, enemies, projectiles, gems, weapon, weaponChanged,
                 stats, spawnTimer, fireTimer, waveTimer, events, menus, buttons, cmds, pre,
                 tally, resize>>

player_movement ==
  /\ Step("player_movement")
  /\ players' = PlayerMovement(players, input.dir, input.dt)
  /\ UNCHANGED <<nextState, orbits, blades, enemies, projectiles, gems, weapon, weaponChanged,
                 stats, spawnTimer, fireTimer, waveTimer, events, menus, buttons, cmds, pre,
                 tally, resize>>

enemy_spawner ==
  /\ Step("enemy_spawner")
  /\ LET t == TickRepeating(spawnTimer, ENEMY_SPAWN_INTERVAL, input.dt * 1000000)
         fired == t.just_finished /\ Len(players) = 1
     IN /\ spawnTimer' = t.elapsed
        /\ \E angle \in (IF fired THEN SpawnAngles ELSE {0}) :
             cmds' = IF fired
                     THEN [cmds EXCEPT !.enemies =
                             Append(@, [pos |-> Polar(players[1].pos, SPAWN_DISTANCE, angle),
                                        origin |-> players[1].pos, by |-> "enemy_spawner"])]
                     ELSE cmds
        /\ tally' = [tally EXCEPT !.trickle = @ + (IF fired THEN 1 ELSE 0),
                                  !.runMs = @ + input.dt,
                                  !.sinceStart = @ /\ Len(players) = 1]
  /\ UNCHANGED <<nextState, players, orbits, blades, enemies, projectiles, gems, weapon,
                 weaponChanged, stats, fireTimer, waveTimer, events, menus, buttons, pre, resize>>

enemy_movement ==
  /\ Step("enemy_movement")
  /\ enemies' = EnemyMovement(enemies, players, input.dt)
  /\ UNCHANGED <<nextState, players, orbits, blades, projectiles, gems, weapon, weaponChanged,
                 stats, spawnTimer, fireTimer, waveTimer, events, menus, buttons, cmds, pre,
                 tally, resize>>

boid_steering ==
  /\ Step("boid_steering")
  /\ enemies' = BoidSteering(enemies, input.dt)
  /\ UNCHANGED <<nextState, players, orbits, blades, projectiles, gems, weapon, weaponChanged,
                 stats, spawnTimer, fireTimer, waveTimer, events, menus, buttons, cmds, pre,
                 tally, resize>>

fire_projectiles ==
  /\ Step("fire_projectiles")
  /\ LET t == TickRepeating(fireTimer, DurationFromSecsF32(weapon.fire_rate), input.dt * 1000000)
     IN /\ fireTimer' = t.elapsed
        /\ cmds' = IF t.just_finished /\ Len(players) = 1 /\ enemies # <<>>
                   THEN [cmds EXCEPT !.projectiles = @ \o Volley(players[1].pos, enemies, weapon.multishot)]
                   ELSE cmds
  /\ UNCHANGED <<nextState, players, orbits, blades, enemies, projectiles, gems, weapon,
                 weaponChanged, stats, spawnTimer, waveTimer, events, menus, buttons, pre,
                 tally, resize>>

move_projectiles ==
  /\ Step("move_projectiles")
  /\ projectiles' = [i \in 1..Len(projectiles) |-> MoveProjectile(projectiles[i], input.dt)]
  /\ cmds' = [cmds EXCEPT !.despawn =
                @ \o LET expired == Ascending({i \in 1..Len(projectiles) : projectiles'[i].ttl >= PROJECTILE_TTL})
                     IN [n \in 1..Len(expired) |-> Despawn("projectile", expired[n], "move_projectiles")]]
  /\ UNCHANGED <<nextState, players, orbits, blades, enemies, gems, weapon, weaponChanged,
                 stats, spawnTimer, fireTimer, waveTimer, events, menus, buttons, pre, tally,
                 resize>>

\* the despawn commands and the events of the hits `hits`, each with its chain
RECURSIVE Resolve(_, _, _, _)
Resolve(hits, es, chain, n) ==
  IF n > Len(hits) THEN [despawn |-> <<>>, sent |-> <<>>]
  ELSE LET struck == Struck(es, hits[n][2], chain)
           rest == Resolve(hits, es, chain, n + 1)
       IN [despawn |-> << Despawn("projectile", hits[n][1], "projectile_collision") >>
                       \o [k \in 1..Len(struck) |-> Despawn("enemy", struck[k], "projectile_collision")]
                       \o rest.despawn,
           sent |-> [k \in 1..Len(struck) |-> XpDropEvent(es[struck[k]].pos, "projectile_collision")]
                    \o rest.sent]

projectile_collision ==
  /\ Step("projectile_collision")
  /\ LET out == Resolve(Hits(projectiles, enemies), enemies, weapon.chain_lightning, 1)
     IN /\ cmds' = [cmds EXCEPT !.despawn = @ \o out.despawn]
        /\ events' = [events EXCEPT !.newer = @ \o out.sent]
        /\ tally' = [tally EXCEPT !.emitted = @ + Len(out.sent)]
  /\ UNCHANGED <<nextState, players, orbits, blades, enemies, projectiles, gems, weapon,
                 weaponChanged, stats, spawnTimer, fireTimer, waveTimer, menus, buttons, pre,
                 resize>>

rotate_orbiting_blades ==
  /\ Step("rotate_orbiting_blades")
  /\ orbits' = IF Len(orbits) = 1
               THEN <<[orbits[1] EXCEPT !.rot = (@ + ORBITING_BLADE_ROTATION_SPEED * input.dt) % TWO_PI]>>
               ELSE orbits
  /\ UNCHANGED <<nextState, players, blades, enemies, projectiles, gems, weapon, weaponChanged,
                 stats, spawnTimer, fireTimer, waveTimer, events, menus, buttons, cmds, pre,
                 tally, resize>>

orbiting_blade_collision ==
  /\ Step("orbiting_blade_collision")
  /\ LET hit == BladeHits(blades, enemies, 1, <<>>)
     IN /\ cmds' = [cmds EXCEPT !.despawn =
                      @ \o [k \in 1..Len(hit) |-> Despawn("enemy", hit[k], "orbiting_blade_collision")]]
        /\ events' = [events EXCEPT !.newer =
                        @ \o [k \in 1..Len(hit) |-> XpDropEvent(enemies[hit[k]].pos, "orbiting_blade_collision")]]
        /\ tally' = [tally EXCEPT !.emitted = @ + Len(hit)]
  /\ UNCHANGED <<nextState, players, orbits, blades, enemies, projectiles, gems, weapon,
                 weaponChanged, stats, spawnTimer, fireTimer, waveTimer, menus, buttons, pre,
                 resize>>

update_blade_count ==
  /\ Step("update_blade_count")
  /\ cmds' = IF weaponChanged /\ Len(orbits) = 1
             THEN [cmds EXCEPT
                     !.despawn = @ \o [i \in 1..Len(blades) |-> Despawn("blade", i, "update_blade_count")],
                     !.blades = @ \o Ring(1, weapon.blade_count, frame)]
             ELSE cmds
  /\ weaponChanged' = FALSE
  /\ UNCHANGED <<nextState, players, orbits, blades, enemies, projectiles, gems, weapon, stats,
                 spawnTimer, fireTimer, waveTimer, events, menus, buttons, pre, tally, resize>>

spawn_initial_blades ==
  /\ Step("spawn_initial_blades")
  /\ LET added == {i \in 1..Len(orbits) : orbits[i].added}
     IN cmds' = IF Cardinality(added) = 1
                THEN [cmds EXCEPT !.blades = @ \o Ring(CHOOSE i \in added : TRUE, weapon.blade_count, frame)]
                ELSE cmds
  /\ orbits' = [i \in 1..Len(orbits) |-> [orbits[i] EXCEPT !.added = FALSE]]
  /\ UNCHANGED <<nextState, players, blades, enemies, projectiles, gems, weapon, weaponChanged,
                 stats, spawnTimer, fireTimer, waveTimer, events, menus, buttons, pre, tally,
                 resize>>

spawn_xp_gems ==
  /\ Step("spawn_xp_gems")
  /\ LET all == events.older \o events.newer
         unread == SelectSeq(all, LAMBDA e : ~e.read)
     IN cmds' = [cmds EXCEPT !.gems = @ \o [i \in 1..Len(unread) |-> [pos |-> unread[i].pos]]]
  /\ events' = [older |-> [i \in 1..Len(events.older) |-> [events.older[i] EXCEPT !.read = TRUE]],
                newer |-> [i \in 1..Len(events.newer) |-> [events.newer[i] EXCEPT !.read = TRUE]]]
  /\ UNCHANGED <<nextState, players, orbits, blades, enemies, projectiles, gems, weapon,
                 weaponChanged, stats, spawnTimer, fireTimer, waveTimer, menus, buttons, pre,
                 tally, resize>>

collect_xp_gems ==
  /\ Step("collect_xp_gems")
  /\ LET near == Collectable(players, gems)
     IN /\ cmds' = [cmds EXCEPT !.despawn =
                      @ \o [n \in 1..Len(near) |-> Despawn("gem", near[n], "collect_xp_gems")]]
        /\ stats' = [stats EXCEPT !.xp = @ + XP_PER_GEM * Len(near)]
  /\ UNCHANGED <<nextState, players, orbits, blades, enemies, projectiles, gems, weapon,
                 weaponChanged, spawnTimer, fireTimer, waveTimer, events, menus, buttons, pre,
                 tally, resize>>

check_level_up ==
  /\ Step("check_level_up")
  /\ LET out == CheckLevelUp(stats)
     IN /\ stats' = out.stats
        /\ nextState' = IF out.paused THEN "Paused" ELSE nextState
        /\ tally' = [tally EXCEPT !.leveled = @ \/ out.stats.level > stats.level]
  /\ pre' = [stats |-> stats, nextState |-> nextState]
  /\ UNCHANGED <<players, orbits, blades, enemies, projectiles, gems, weapon, weaponChanged,
                 spawnTimer, fireTimer, waveTimer, events, menus, buttons, cmds, resize>>

handle_upgrade_buttons ==
  /\ Step("handle_upgrade_buttons")
  /\ LET pressed == input.click >= 1 /\ input.click <= Len(buttons)
         w == IF pressed THEN ApplyUpgrade(weapon, buttons[input.click].upgrade) ELSE weapon
     IN /\ weapon' = w
        /\ weaponChanged' = (weaponChanged \/ pressed)
        /\ nextState' = IF pressed THEN "Running" ELSE nextState
        /\ resize' = IF w.blade_count # weapon.blade_count
                     THEN [from |-> weapon.blade_count, to |-> w.blade_count, at |-> frame]
                     ELSE resize
  /\ UNCHANGED <<players, orbits, blades, enemies, projectiles, gems, stats, spawnTimer,
                 fireTimer, waveTimer, events, menus, buttons, cmds, pre, tally>>

mega_wave_spawner ==
  /\ Step("mega_wave_spawner")
  /\ LET t == TickRepeating(waveTimer, MEGA_WAVE_INTERVAL, input.dt)
         fired == t.just_finished /\ Len(players) = 1
     IN /\ waveTimer' = t.elapsed
        /\ \E direction \in (IF fired THEN WaveDirections ELSE {Zero}),
              odd \in (IF fired THEN WaveOffsets ELSE {Zero}),
              even \in (IF fired THEN WaveOffsets ELSE {Zero}) :
             cmds' = IF fired
                     THEN [cmds EXCEPT !.enemies = @ \o MegaWave(players[1].pos, direction, odd, even)]
                     ELSE cmds
  /\ UNCHANGED <<nextState, players, orbits, blades, enemies, projectiles, gems, weapon,
                 weaponChanged, stats, spawnTimer, fireTimer, events, menus, buttons, pre, tally,
                 resize>>

\* the Commands of the Update systems are applied when the schedule ends
ApplyDeferred ==
  /\ pc = "ApplyDeferred" /\ pc' = "PostUpdate" /\ ran' = "ApplyDeferred"
  /\ enemies' = KeepFrom(enemies, Despawned(cmds.despawn, "enemy"), 1)
                \o [i \in 1..Len(cmds.enemies) |-> [pos |-> cmds.enemies[i].pos]]
  /\ projectiles' = KeepFrom(projectiles, Despawned(cmds.despawn, "projectile"), 1) \o cmds.projectiles
  /\ gems' = KeepFrom(gems, Despawned(cmds.despawn, "gem"), 1) \o cmds.gems
  /\ blades' = KeepFrom(blades, Despawned(cmds.despawn, "blade"), 1) \o cmds.blades
  /\ tally' = [tally EXCEPT !.removed = @ + Cardinality(Despawned(cmds.despawn, "enemy"))]
  /\ cmds' = NoCommands
  /\ UNCHANGED <<frame, systems, gameState, nextState, input, players, orbits, weapon,
                 weaponChanged, stats, spawnTimer, fireTimer, waveTimer, events, menus, buttons,
                 pre, resize>>

\* PostUpdate: transform propagation gives every blade its GlobalTransform
PostUpdate ==
  /\ pc = "PostUpdate" /\ pc' = "First" /\ ran' = "PostUpdate"
  /\ blades' = [i \in 1..Len(blades) |-> Propagate(blades[i], players, orbits)]
  /\ input' = NoInput
  /\ UNCHANGED <<frame, systems, gameState, nextState, players, orbits, enemies, projectiles,
                 gems, weapon, weaponChanged, stats, spawnTimer, fireTimer, waveTimer, events,
                 menus, buttons, cmds, pre, tally, resize>>

Next ==
  \/ First \/ StateTransition \/ main_menu_input \/ player_movement \/ enemy_spawner
  \/ enemy_movement \/ boid_steering \/ fire_projectiles \/ move_projectiles
  \/ projectile_collision \/ rotate_orbiting_blades \/ orbiting_blade_collision
  \/ update_blade_count \/ spawn_initial_blades \/ spawn_xp_gems \/ collect_xp_gems
  \/ check_level_up \/ handle_upgrade_buttons \/ mega_wave_spawner \/ ApplyDeferred
  \/ PostUpdate

Spec == Init /\ [][Next]_vars

NextLeveling == First \/ StateTransition \/ check_level_up \/ ApplyDeferred \/ PostUpdate
SpecLeveling == InitLeveling /\ [][NextLeveling]_vars

NextCollision == First \/ StateTransition \/ projectile_collision \/ ApplyDeferred \/ PostUpdate
SpecCollision == InitCollision /\ [][NextCollision]_vars

NextUpgrades == First \/ StateTransition \/ handle_upgrade_buttons \/ ApplyDeferred \/ PostUpdate
SpecUpgrades == InitUpgrades /\ [][NextUpgrades]_vars

NextWave == First \/ StateTransition \/ mega_wave_spawner \/ ApplyDeferred \/ PostUpdate
SpecWave == InitWave /\ [][NextWave]_vars

NextScenario ==
  \/ First \/ StateTransition \/ enemy_movement \/ fire_projectiles \/ move_projectiles
  \/ projectile_collision \/ spawn_xp_gems \/ ApplyDeferred \/ PostUpdate
SpecScenario == InitScenario /\ [][NextScenario]_vars

NextBoid ==
  \/ First \/ StateTransition \/ enemy_movement \/ boid_steering \/ ApplyDeferred \/ PostUpdate
SpecBoid == InitBoid /\ [][NextBoid]_vars

NextFlight ==
  \/ First \/ StateTransition \/ move_projectiles \/ projectile_collision \/ ApplyDeferred
  \/ PostUpdate
SpecFlight == InitFlight /\ [][NextFlight]_vars

\* ------------------------------------------------------------------- claims
\* the hostiles that projectile_collision has queued for despawn, in order
Victims ==
  LET q == SelectSeq(cmds.despawn, LAMBDA d : d.kind = "enemy" /\ d.by = "projectile_collision")
  IN [i \in 1..Len(q) |-> q[i].idx]
\* the projectiles that projectile_collision has queued for despawn
Spent ==
  SelectSeq(cmds.despawn, LAMBDA d : d.kind = "projectile" /\ d.by = "projectile_collision")
\* the projectiles that lie within the hit radius of some hostile
Overlapping ==
  {i \in 1..Len(projectiles) :
     \E j \in 1..Len(enemies) : Within(projectiles[i].pos, enemies[j].pos, ENEMY_SIZE \div 2)}
InChainRange(p, q) == Dist2(p, q) < MAX_CHAIN_DISTANCE * MAX_CHAIN_DISTANCE

\* C1 (as the spec states it): whenever the simulation state is Running, exactly
\* one controlled entity exists, also after level-up pauses and resumes.
C1_OnePlayerWhileRunning == gameState = "Running" => Len(players) = 1

\* C2: the simulation state changes only MainMenu -> Running, Running -> Paused
\* and Paused -> Running, and Running -> Paused is applied only at the
\* transition point that follows an Update pass in which check_level_up raised
\* the level.
C2_Transitions ==
  [][gameState' # gameState =>
       \/ gameState = "MainMenu" /\ gameState' = "Running"
       \/ gameState = "Running" /\ gameState' = "Paused" /\ tally.leveled
       \/ gameState = "Paused" /\ gameState' = "Running"]_vars
\* a run that was paused by a level-up has resumed
C2_Witness == gameState = "Running" /\ stats.level > 1 /\ ran = "StateTransition"

\* C3: a run of check_level_up on a record with xp >= xp_to_next_level adds 1 to
\* level, subtracts the old requirement from xp, sets the requirement to
\* floor(1.5 x old) and requests Paused; on a record with xp below the
\* requirement it leaves the record and the requested state as they were.
C3_LevelUpStep ==
  ran = "check_level_up" =>
    IF pre.stats.xp >= pre.stats.xp_to_next_level
    THEN /\ stats.level = pre.stats.level + 1
         /\ stats.xp = pre.stats.xp - pre.stats.xp_to_next_level
         /\ 2 * stats.xp_to_next_level <= 3 * pre.stats.xp_to_next_level
         /\ 2 * (stats.xp_to_next_level + 1) > 3 * pre.stats.xp_to_next_level
         /\ nextState = "Paused"
    ELSE stats = pre.stats /\ nextState = pre.nextState
\* a level-up whose new requirement is rounded down: 225 -> 337
C3_Witness ==
  /\ ran = "check_level_up" /\ pre.stats.xp >= pre.stats.xp_to_next_level
  /\ pre.stats.xp_to_next_level = 225 /\ stats.xp_to_next_level = 337

\* C4: within one tick the level rises by at most 1, also when xp is at least
\* twice the requirement or still meets the new requirement after the
\* subtraction; the surplus xp stays in the record.
C4_OneLevelPerTick ==
  /\ stats.level <= tally.level0 + 1
  /\ (ran = "check_level_up" /\ pre.stats.xp >= pre.stats.xp_to_next_level) =>
       stats.xp + pre.stats.xp_to_next_level = pre.stats.xp
\* a level-up that leaves enough xp for another one
C4_Witness ==
  /\ ran = "check_level_up" /\ pre.stats.xp >= 2 * pre.stats.xp_to_next_level
  /\ stats.level = pre.stats.level + 1 /\ stats.xp >= stats.xp_to_next_level

\* C5 (as the spec states it): a double kill in one tick is deduplicated, so
\* when a tick's commands have been applied the number of reward pickups
\* emitted equals the number of hostiles removed.
C5_PickupsMatchRemovals == pc = "PostUpdate" => tally.emitted = tally.removed

\* C6: one run of projectile_collision despawns at most one projectile and at
\* most 1 + chain_lightning hostiles, however many projectiles lie within the
\* hit radius of hostiles; the other projectiles get no command.
C6_OneHitPerPass ==
  ran = "projectile_collision" =>
    /\ Len(Spent) <= 1
    /\ Len(Victims) <= 1 + weapon.chain_lightning
    /\ Len(cmds.despawn) = Len(Spent) + Len(Victims)
\* two projectiles overlap hostiles, and one of them is despawned
C6_Witness ==
  ran = "projectile_collision" /\ Cardinality(Overlapping) >= 2 /\ Len(Spent) = 1

\* C7 (as the spec states it): a hit resolved with chain count k while at least
\* k+1 hostiles, the one hit included, lie within the chain distance of the one
\* hit destroys exactly k+1 hostiles and emits exactly k+1 pickups.
C7_AsStated ==
  (ran = "projectile_collision" /\ Victims # <<>>
     /\ Cardinality({j \in 1..Len(enemies) :
          InChainRange(enemies[Victims[1]].pos, enemies[j].pos)}) >= weapon.chain_lightning + 1) =>
    /\ Len(Victims) = weapon.chain_lightning + 1
    /\ Len(events.newer) = weapon.chain_lightning + 1
\* C7: a hit resolved with chain count k emits one pickup per hostile it
\* destroys, and destroys exactly k+1 hostiles when every hop finds a hostile
\* not yet struck within the chain distance of the hostile struck last: it
\* destroys fewer only when no such hostile is left near the last one struck.
C7_ChainLength ==
  (ran = "projectile_collision" /\ Victims # <<>>) =>
    /\ Len(events.newer) = Len(Victims)
    /\ \/ Len(Victims) = weapon.chain_lightning + 1
       \/ /\ Len(Victims) <= weapon.chain_lightning
          /\ \A j \in 1..Len(enemies) :
               \/ \E v \in 1..Len(Victims) : Victims[v] = j
               \/ ~InChainRange(enemies[Victims[Len(Victims)]].pos, enemies[j].pos)
\* a chain of two hops, three hostiles destroyed
C7_Witness ==
  /\ ran = "projectile_collision" /\ weapon.chain_lightning = 2
  /\ Len(Victims) = 3 /\ Len(events.newer) = 3

\* C8: the hostile hit and the hostiles chained from it are pairwise distinct.
C8_NoRevisit ==
  ran = "projectile_collision" =>
    \A a, b \in 1..Len(Victims) : a # b => Victims[a] # Victims[b]
\* the second hop passes over the hostile hit first, which is the nearest one
C8_Witness ==
  /\ ran = "projectile_collision" /\ Len(Victims) = 3
  /\ Dist2(enemies[Victims[2]].pos, enemies[Victims[1]].pos)
       < Dist2(enemies[Victims[2]].pos, enemies[Victims[3]].pos)

\* C9 (as the spec states it): over Running ticks with a controlled entity
\* present and total time T the trickle spawner creates floor(T / 0.1)
\* hostiles, each at distance 1000 from the controlled entity.
C9_TrickleCount ==
  /\ tally.sinceStart => tally.trickle = tally.runMs \div 100
  /\ \A i \in 1..Len(cmds.enemies) :
       cmds.enemies[i].by = "enemy_spawner" =>
         Dist2(cmds.enemies[i].pos, cmds.enemies[i].origin) = SPAWN_DISTANCE * SPAWN_DISTANCE

\* C10 (as the spec states it): once the Running tick after a change of
\* blade_count from m to n has completed, the ring holds exactly n blades, one
\* per slot of n, and none of the blades that existed before.
C10_RingRebuilt ==
  (ran = "PostUpdate" /\ gameState = "Running" /\ resize.at >= 0 /\ frame > resize.at) =>
    /\ Len(blades) = resize.to
    /\ \A i \in 1..Len(blades) : blades[i].born > resize.at /\ blades[i].of = resize.to
    /\ \A k \in 0..(resize.to - 1) : \E i \in 1..Len(blades) : blades[i].slot = k

\* C11: in a step taken while the state is Paused and stays Paused no hostile,
\* projectile, blade, pickup, player or orbit is created, moved or destroyed,
\* no command is queued, no timer advances and PlayerStats is unchanged; the
\* weapon and the requested next state change only in handle_upgrade_buttons.
C11_PausedIsFrozen ==
  [][(gameState = "Paused" /\ gameState' = "Paused") =>
       /\ UNCHANGED <<players, orbits, blades, enemies, projectiles, gems, cmds,
                      spawnTimer, fireTimer, waveTimer, stats>>
       /\ (weapon' # weapon \/ nextState' # nextState) => pc = "handle_upgrade_buttons"]_vars
\* a second whole frame spent in Paused
C11_Witness == gameState = "Paused" /\ ran = "PostUpdate" /\ frame >= 2

\* the upgrade of the button under the click
Selected == buttons[input.click].upgrade
\* C12: WeaponStats changes only in Paused, while no next state is requested
\* yet; the change is the selected upgrade's own field (multishot + 1,
\* chain_lightning + 1, blade_count + 1, fire_rate * 0.9 to the digits an f32
\* keeps), every other field keeps its value and Running is requested in the
\* same step; and in Paused Running is requested only by such a change, so a
\* stay ends with exactly one.
C12_OneUpgradePerPause ==
  [][/\ weapon' # weapon =>
          /\ gameState = "Paused" /\ nextState = "None" /\ nextState' = "Running"
          /\ input.click \in 1..Len(buttons)
          /\ \/ Selected = "Multishot"
                /\ weapon' = [weapon EXCEPT !.multishot = weapon.multishot + 1]
             \/ Selected = "ChainLightning"
                /\ weapon' = [weapon EXCEPT !.chain_lightning = weapon.chain_lightning + 1]
             \/ Selected = "BladeCount"
                /\ weapon' = [weapon EXCEPT !.blade_count = weapon.blade_count + 1]
             \/ Selected = "AttackSpeed"
                /\ \/ /\ weapon'.fire_rate.e = weapon.fire_rate.e
                      /\ 10 * weapon'.fire_rate.m - 9 * weapon.fire_rate.m \in -5..5
                   \/ /\ weapon'.fire_rate.e = weapon.fire_rate.e + 1
                      /\ weapon'.fire_rate.m = 9 * weapon.fire_rate.m
                /\ weapon' = [weapon EXCEPT !.fire_rate = weapon'.fire_rate]
     /\ (gameState = "Paused" /\ nextState # "Running" /\ nextState' = "Running") =>
          weapon' # weapon
     /\ (gameState = "Paused" /\ gameState' # "Paused") =>
          gameState' = "Running" /\ nextState = "Running"]_vars
\* an upgrade has just been applied and the pause is about to end
C12_Witness ==
  /\ gameState = "Paused" /\ ran = "handle_upgrade_buttons"
  /\ weapon # WeaponDefault /\ nextState = "Running"

\* C13: no XpDropEvent is dropped unread: whenever the event buffers are
\* rotated in First, every event of the older buffer has been read by
\* spawn_xp_gems (and so has become a pickup).  Fails when spawn_xp_gems is
\* scheduled before the collision systems: the event sent in the frame that
\* levels up is still unread when the Paused frames rotate it away.
C13_NoSignalLost ==
  [][pc = "First" => \A i \in 1..Len(events.older) : events.older[i].read]_vars

\* the stage of a tick that a system belongs to: 1 Spawning, 2 Movement and
\* Steering, 3 Targeting and Collision, 4 Progression, 0 none of them
Stage(name) ==
  CASE name \in {"enemy_spawner", "mega_wave_spawner"} -> 1
    [] name \in {"enemy_movement", "boid_steering", "move_projectiles",
                 "rotate_orbiting_blades"} -> 2
    [] name \in {"fire_projectiles", "projectile_collision", "orbiting_blade_collision"} -> 3
    [] name \in {"spawn_xp_gems", "collect_xp_gems", "check_level_up"} -> 4
    [] OTHER -> 0
\* C14: in a Running frame a system of a stage never runs right after a system
\* of a later stage.  Fails in every schedule: only enemy_movement and
\* boid_steering are ordered, and even in the order of registration
\* fire_projectiles precedes move_projectiles and mega_wave_spawner comes last.
C14_StagesInOrder ==
  (gameState = "Running" /\ Stage(ran) > 0 /\ Stage(pc) > 0) => Stage(ran) <= Stage(pc)

\* C20: no step lowers xp_to_next_level: after each level-up the requirement is
\* at least what it was before, over any sequence of level-ups.
C20_RequirementNeverDecreases ==
  [][stats'.xp_to_next_level >= stats.xp_to_next_level]_vars
\* a level-up in a later frame, from a level above the first, that raises the
\* requirement
C20_Witness ==
  /\ ran = "check_level_up" /\ frame >= 2
  /\ stats.level >= tally.level0 + 1 /\ pre.stats.level > 1
  /\ stats.xp_to_next_level > pre.stats.xp_to_next_level
  /\ pre.stats.xp_to_next_level > XP_TO_NEXT_LEVEL_DEFAULT

\* C16: after any sequence of upgrades WeaponStats has multishot >= 1,
\* chain_lightning >= 0, blade_count >= 0 and a fire_rate above zero.
C16_WeaponWithinMinimums ==
  /\ weapon.multishot >= 1 /\ weapon.chain_lightning >= 0 /\ weapon.blade_count >= 0
  /\ weapon.fire_rate.m > 0
\* two more upgrades pressed on top of earlier ones, AttackSpeed the last
C16_Witness ==
  /\ ran = "handle_upgrade_buttons" /\ frame >= 2 /\ input.click >= 1
  /\ weapon.multishot > 1 /\ weapon.chain_lightning > 0 /\ weapon.blade_count > BLADE_COUNT_DEFAULT
  /\ weapon.fire_rate.e > NANOS_EXPONENT /\ Selected = "AttackSpeed"

\* C17: fire_rate has a positive floor: no upgrade takes the Duration that
\* fire_projectiles sets on the fire timer from fire_rate down to zero.  Fails:
\* fire_rate *= 0.9 has no floor, and the Duration of 0.5 s * 0.9^197 is 0 ns.
C17_FireIntervalHasFloor ==
  [][weapon'.fire_rate # weapon.fire_rate => DurationFromSecsF32(weapon'.fire_rate) >= 1]_vars

\* the systems that need the player
NeedPlayer ==
  {"enemy_spawner", "mega_wave_spawner", "enemy_movement", "fire_projectiles", "collect_xp_gems"}
\* C18: in a Running frame where get_single finds no single player, each of
\* enemy_spawner, mega_wave_spawner, enemy_movement, fire_projectiles and
\* collect_xp_gems leaves every entity, every queued command and event and
\* PlayerStats as they were, and hands over to the next system.
C18_SkipsWithoutPlayer ==
  [][(gameState = "Running" /\ Len(players) # 1 /\ pc \in NeedPlayer) =>
       /\ UNCHANGED <<players, orbits, blades, enemies, projectiles, gems, stats, cmds,
                      events, weapon, nextState>>
       /\ pc' = After(pc)]_vars
\* with two players after a resume: the fire timer has just finished with a
\* hostile in the world and a pickup within reach, and nothing was queued
C18_Witness ==
  /\ gameState = "Running" /\ Len(players) = 2 /\ ran = "fire_projectiles"
  /\ fireTimer < input.dt * 1000000 /\ enemies # <<>> /\ cmds.projectiles = <<>>
  /\ \E i \in 1..Len(gems) : Within(players[1].pos, gems[i].pos, PLAYER_SIZE \div 2 + PICKUP_REACH)

\* the hostiles that the Update systems of this frame have queued since q
Queued(q) == SubSeq(cmds'.enemies, Len(q) + 1, Len(cmds'.enemies))
\* whether position p is within MEGA_WAVE_JITTER of c on each axis
NearCenter(p, c) ==
  /\ p[1] - c[1] \in -MEGA_WAVE_JITTER..MEGA_WAVE_JITTER
  /\ p[2] - c[2] \in -MEGA_WAVE_JITTER..MEGA_WAVE_JITTER
HostileDueEast ==
  /\ Len(players) = 1 /\ Len(enemies) = 1
  /\ enemies[1].pos[2] = players[1].pos[2] /\ enemies[1].pos[1] > players[1].pos[1]
\* the projectiles within the hit radius of the only hostile
OnTarget ==
  {i \in 1..Len(projectiles) :
     Len(enemies) = 1 /\ Dist2(projectiles[i].pos, enemies[1].pos) < 10 * 10}
\* the events that spawn_xp_gems has not read yet
Unread == SelectSeq(events.older \o events.newer, LAMBDA e : ~e.read)
C21_PairPushedApart ==
  [][(players = <<>> /\ Len(enemies) = 2 /\ Dist2(enemies[1].pos, enemies[2].pos) = 5 * 5) =>
       /\ pc = "enemy_movement" => enemies' = enemies
       /\ (pc = "boid_steering" /\ input.dt > 0) =>
            /\ Dist2(enemies'[1].pos, enemies'[2].pos) > 5 * 5
            /\ VSub(enemies'[1].pos, enemies[1].pos) = VSub(enemies[2].pos, enemies'[2].pos)
            /\ enemies'[1].pos # enemies[1].pos]_vars
\* two hostiles that started on a diagonal, after the first run of boid_steering
C21_Witness ==
  /\ systems = BoidTestSystems /\ ran = "boid_steering" /\ frame = 1 /\ players = <<>>
  /\ Len(enemies) = 2 /\ Dist2(enemies[1].pos, enemies[2].pos) > 5 * 5
  /\ enemies[1].pos[1] # enemies[2].pos[1] /\ enemies[1].pos[2] # enemies[2].pos[2]

\* whether the fire timer elapses in the frame under way
FireDue == fireTimer + input.dt * 1000000 >= DurationFromSecsF32(weapon.fire_rate)
\* the projectiles that fire_projectiles queues in the step
Fired == SubSeq(cmds'.projectiles, Len(cmds.projectiles) + 1, Len(cmds'.projectiles))
\* C22 (as the spec states it): a run of fire_projectiles in which the fire
\* timer elapses while a player and a hostile exist queues exactly multishot
\* projectiles, each at a player's position, and the volley is centred on a
\* hostile nearest to that player; any other run queues none.
C22_VolleyWhenDue ==
  [][pc = "fire_projectiles" =>
       /\ SubSeq(cmds'.projectiles, 1, Len(cmds.projectiles)) = cmds.projectiles
       /\ IF FireDue /\ players # <<>> /\ enemies # <<>>
          THEN /\ Len(Fired) = weapon.multishot
               /\ \E p \in 1..Len(players), t \in 1..Len(enemies) :
                    /\ \A j \in 1..Len(enemies) :
                         Dist2(players[p].pos, enemies[t].pos) <= Dist2(players[p].pos, enemies[j].pos)
                    /\ \A i \in 1..Len(Fired) : Fired[i].pos = players[p].pos
                    /\ weapon.multishot = 1 =>
                         Fired[1].dir = Normalize(VSub(enemies[t].pos, players[p].pos))
          ELSE Fired = <<>>]_vars

\* the despawn commands that the step queues
Doomed == SubSeq(cmds'.despawn, Len(cmds.despawn) + 1, Len(cmds'.despawn))
\* C23: the flight time of a projectile grows by the frame's length in every
\* run of move_projectiles, up to 2 s; no projectile whose flight time has
\* reached 2 s outlives the tick; and a despawn of a projectile is queued only
\* by move_projectiles for a projectile whose flight time has reached 2 s, or
\* by projectile_collision for a projectile within the hit radius of a
\* hostile; only the projectiles so queued are removed.
C23_ProjectileLifetime ==
  [][/\ pc = "move_projectiles" =>
          /\ Len(projectiles') = Len(projectiles)
          /\ \A i \in 1..Len(projectiles) :
               /\ projectiles'[i].ttl = IF projectiles[i].ttl + input.dt >= 2000 THEN 2000
                                        ELSE projectiles[i].ttl + input.dt
               /\ projectiles'[i].ttl >= 2000 <=>
                    \E n \in 1..Len(Doomed) : Doomed[n].kind = "projectile" /\ Doomed[n].idx = i
     /\ pc = "projectile_collision" =>
          \A n \in 1..Len(Doomed) :
            Doomed[n].kind = "projectile" =>
              \E j \in 1..Len(enemies) : Dist2(projectiles[Doomed[n].idx].pos, enemies[j].pos) < 10 * 10
     /\ pc \notin {"move_projectiles", "projectile_collision"} =>
          \A n \in 1..Len(Doomed) : Doomed[n].kind # "projectile"
     /\ pc = "ApplyDeferred" =>
          /\ projectiles' = KeepFrom(projectiles, Despawned(cmds.despawn, "projectile"), 1)
                              \o cmds.projectiles
          /\ \A i \in 1..Len(projectiles') : projectiles'[i].ttl < 2000
     /\ pc # "ApplyDeferred" => Len(projectiles') = Len(projectiles)]_vars
\* a projectile has reached its time to live in this run of move_projectiles,
\* next to one that flies on
C23_Witness ==
  /\ ran = "move_projectiles" /\ Len(projectiles) = 2
  /\ projectiles[1].ttl = PROJECTILE_TTL /\ projectiles[2].ttl < PROJECTILE_TTL
  /\ \E n \in 1..Len(cmds.despawn) : cmds.despawn[n] = Despawn("projectile", 1, "move_projectiles")

\* the pickups for which the step queues a despawn
Collected == {i \in 1..Len(gems) : \E n \in 1..Len(Doomed) : Doomed[n] = Despawn("gem", i, "collect_xp_gems")}
InBladeReach ==
  {j \in 1..Len(enemies) :
     \E b \in 1..Len(blades) : Dist2(blades[b].gpos, enemies[j].pos) < 25 * 25}
\* the events that the step sends
Sent == SubSeq(events'.newer, Len(events.newer) + 1, Len(events'.newer))
\* C25: a run of orbiting_blade_collision queues exactly one despawn and sends
\* exactly one XpDropEvent, at the hostile's position, for every hostile less
\* than 25 units from at least one blade, however many blades are that near,
\* and nothing for any other hostile; it changes no hostile itself.
C25_OneKillPerHostile ==
  [][pc = "orbiting_blade_collision" =>
       /\ enemies' = enemies
       /\ Len(Doomed) = Cardinality(InBladeReach) /\ Len(Sent) = Cardinality(InBladeReach)
       /\ \A j \in InBladeReach :
            /\ \E n \in 1..Len(Doomed) : Doomed[n] = Despawn("enemy", j, "orbiting_blade_collision")
            /\ \E n \in 1..Len(Sent) : Sent[n] = XpDropEvent(enemies[j].pos, "orbiting_blade_collision")
       /\ \A n \in 1..Len(Doomed) : Doomed[n].kind = "enemy" /\ Doomed[n].idx \in InBladeReach]_vars
\* a hostile within reach of two blades at once has been hit, once, and
\* another hostile out of reach has not
C25_Witness ==
  /\ ran = "orbiting_blade_collision" /\ Len(enemies) >= 2
  /\ \E j, k \in 1..Len(enemies) :
       /\ Cardinality({b \in 1..Len(blades) : Dist2(blades[b].gpos, enemies[j].pos) < 25 * 25}) >= 2
       /\ Cardinality({n \in 1..Len(cmds.despawn) :
                         cmds.despawn[n] = Despawn("enemy", j, "orbiting_blade_collision")}) = 1
       /\ k \notin InBladeReach
       /\ \A n \in 1..Len(cmds.despawn) : cmds.despawn[n] # Despawn("enemy", k, "orbiting_blade_collision")

\* the hostiles hop h of a chain may strike: not struck by the one hit or an
\* earlier hop, nearer than the chain distance to the hostile struck last
Eligible(h) ==
  {j \in 1..Len(enemies) :
     /\ \A v \in 1..h : Victims[v] # j
     /\ InChainRange(enemies[Victims[h]].pos, enemies[j].pos)}
\* C26: every chain hop strikes a hostile that is strictly less than 300 units
\* from the hostile struck before it and that no hostile not yet chained is
\* nearer to; the chain makes no more hops than the chain count, and it makes
\* fewer only when no hostile not yet chained is within 300 units of the one
\* struck last.
C26_ChainHops ==
  (ran = "projectile_collision" /\ Victims # <<>>) =>
    /\ \A h \in 1..(Len(Victims) - 1) :
         /\ Victims[h + 1] \in Eligible(h)
         /\ \A j \in Eligible(h) :
              Dist2(enemies[Victims[h]].pos, enemies[Victims[h + 1]].pos)
                <= Dist2(enemies[Victims[h]].pos, enemies[j].pos)
    /\ Len(Victims) - 1 <= weapon.chain_lightning
    /\ Len(Victims) - 1 < weapon.chain_lightning => Eligible(Len(Victims)) = {}
\* the first hop has two hostiles to choose from and takes the nearer one, and
\* the second hop finds none within the chain distance
C26_Witness ==
  /\ ran = "projectile_collision" /\ weapon.chain_lightning = 2 /\ Len(Victims) = 2
  /\ \E j \in Eligible(1) :
       Dist2(enemies[Victims[1]].pos, enemies[Victims[2]].pos)
         < Dist2(enemies[Victims[1]].pos, enemies[j].pos)

\* C27 (as the spec states it): whenever the simulation is Paused, on the first
\* level-up and on every later one, upgrade options are there to select, so
\* that Paused -> Running stays possible.
C27_PausedHasOptions == gameState = "Paused" => buttons # <<>>

\* C28 (as the spec states it): once the first Running tick after the start of
\* play has completed, the blade ring holds exactly as many blades as the
\* initial blade count of the weapon, 3: spawn_initial_blades and
\* update_blade_count do not both populate it.
C28_InitialRing ==
  (tally.sinceStart /\ gameState = "Running" /\ ran = "PostUpdate") =>
    Len(blades) = BLADE_COUNT_DEFAULT

====
